---- MODULE Spec2Model ----
(***************************************************************************)
(* A model of exdir: a directory tree on disk mirrored by weakly cached    *)
(* objects (File, Directory, Attribute, DataSet, Serializer) whose writes  *)
(* and deletions are deferred until commit.                                *)
(*                                                                         *)
(* Paths are sequences of tokens.  A directory name or data set key is a   *)
(* sequence of one-character tokens, the separator is the token "/", and   *)
(* the three reserved file names are one token each, so that the prefix    *)
(* test of str.startswith is the prefix test on these sequences.           *)
(***************************************************************************)
EXTENDS Naturals, Sequences, FiniteSets, TLC

\* ------------------------------------------------------------------ paths

Sep == "/"

RootPath == <<"r">>

NameA == <<"a">>
NameAB == <<"a", "b">>
\* the name "a/": another spelling of the child "a"
NameASlash == <<"a", "/">>

MetaName == <<".meta">>
AttrName == <<".attributes">>
DataSetName == <<".data_sets">>

\* the data set key of the model, and the attribute key
KeyK == <<"k">>
KeyX == "x"

\* os.path.join(path, name), for a relative name
join(path, name) == path \o <<Sep>> \o name

\* the current directory
CurDir == <<".">>

\* os.path.normpath, as far as the model's paths need it: the empty path is ".",
\* trailing separators go, and so does a leading "./"
RECURSIVE normpath(_)
normpath(path) ==
    IF path = <<>> THEN CurDir
    ELSE IF Len(path) > 1 /\ path[Len(path)] = Sep
    THEN normpath(SubSeq(path, 1, Len(path) - 1))
    ELSE IF Len(path) > 2 /\ SubSeq(path, 1, 2) = CurDir \o <<Sep>>
    THEN normpath(SubSeq(path, 3, Len(path)))
    ELSE path

\* os.path.split(path)[0]: what precedes the last separator
split_head(path) ==
    LET seps == {i \in 1..Len(path) : path[i] = Sep}
    IN IF seps = {} THEN <<>>
       ELSE LET last == CHOOSE i \in seps : \A j \in seps : j <= i
            IN normpath(SubSeq(path, 1, last - 1))

\* str.startswith
startswith(s, prefix) ==
    Len(prefix) <= Len(s) /\ SubSeq(s, 1, Len(prefix)) = prefix

\* ord(c), of the characters names are made of
ord(c) ==
    CASE c = "." -> 46
      [] c = "/" -> 47
      [] c = "a" -> 97
      [] c = "b" -> 98
      [] c = "c" -> 99
      [] c = "k" -> 107
      [] c = "r" -> 114

\* a < b, of two str: at the first position they differ, or a is a proper prefix
str_lt(a, b) ==
    \E i \in 1..(Len(b)) :
       /\ \A j \in 1..(i - 1) : j <= Len(a) /\ a[j] = b[j]
       /\ (i > Len(a) \/ ord(a[i]) < ord(b[i]))
       /\ i - 1 <= Len(a)

\* sorted(set), of a set of str
RECURSIVE sorted(_)
sorted(set) ==
    IF set = {} THEN <<>>
    ELSE LET x == CHOOSE y \in set : \A z \in set \ {y} : str_lt(y, z)
         IN <<x>> \o sorted(set \ {x})

\* ------------------------------------------------------------ Python values

None == [t |-> "None"]
Int(n) == [t |-> "int", v |-> n]
Bool(b) == [t |-> "bool", b |-> b]
Str(s) == [t |-> "str", s |-> s]
OrderedDict(items) == [t |-> "OrderedDict", items |-> items]
List(items) == [t |-> "list", items |-> items]

odict_has(d, k) == \E i \in 1..Len(d.items) : d.items[i].k = k

odict_index(d, k) == CHOOSE i \in 1..Len(d.items) : d.items[i].k = k

odict_get(d, k) == d.items[odict_index(d, k)].v

\* d[k] = v: a new key goes last, a known key keeps its place
odict_set(d, k, v) ==
    IF odict_has(d, k)
    THEN OrderedDict([d.items EXCEPT ![odict_index(d, k)] = [k |-> k, v |-> v]])
    ELSE OrderedDict(Append(d.items, [k |-> k, v |-> v]))

\* del d[k]
odict_del(d, k) ==
    LET i == odict_index(d, k)
    IN OrderedDict(SubSeq(d.items, 1, i - 1) \o SubSeq(d.items, i + 1, Len(d.items)))

\* ----------------------------------------------------------------- JSON

\* json.dump of a scalar
json_dump_scalar(v) ==
    IF v.t = "None" THEN [j |-> "null"] ELSE [j |-> "number", n |-> v.v]

\* json.dump(self._data, f, indent=4)
json_dump(v) ==
    IF v.t = "OrderedDict"
    THEN [j |-> "object",
          members |-> [i \in 1..Len(v.items) |->
                         [name |-> v.items[i].k,
                          value |-> json_dump_scalar(v.items[i].v)]]]
    ELSE json_dump_scalar(v)

json_load_scalar(doc) ==
    IF doc.j = "null" THEN None ELSE Int(doc.n)

\* json.load(f, object_pairs_hook=collections.OrderedDict)
json_load(doc) ==
    IF doc.j = "object"
    THEN OrderedDict([i \in 1..Len(doc.members) |->
                        [k |-> doc.members[i].name,
                         v |-> json_load_scalar(doc.members[i].value)]])
    ELSE json_load_scalar(doc)

\* the content of a file that json.load cannot parse
Invalid == [j |-> "invalid"]

\* --------------------------------------------------------------- the disk
\* The disk maps every path that exists to a directory or to a file's document.

Dir == [kind |-> "dir"]
FileOf(doc) == [kind |-> "file", doc |-> doc]

\* ----------------------------------------------------------------- objects

\* WeakCache.__call__: key = str(args) + str(kwargs), the path as it was given
cache_key(rawpath) == rawpath

\* An instance is named by its class and its key in that class's WeakCache, and
\* carries the path Object.__init__ gives it: self._path = os.path.normpath(path).
Obj(cls, rawpath) ==
    [cls |-> cls, key |-> cache_key(rawpath), path |-> normpath(rawpath)]

\* Object.path
path(o) == o.path

FileObj == Obj("File", RootPath)

\* Directory.__init__: the three containers of a directory
meta_of(d) == Obj("Attribute", join(path(d), MetaName))
attr_of(d) == Obj("Attribute", join(path(d), AttrName))
data_set_of(d) == Obj("DataSet", join(path(d), DataSetName))

containers(d) == {meta_of(d), attr_of(d), data_set_of(d)}

\* DataSet.serializer
serializer_of(ds, item) ==
    Obj("Serializer", join(split_head(path(ds)), item))

IsDir(o) == o.cls \in {"File", "Directory"}

\* Serializer.data_type: OrderedDict for Attribute and DataSet, None for Serializer
data_type(o) == IF o.cls \in {"Attribute", "DataSet"} THEN "OrderedDict" ELSE "None"

\* Serializer.default
default(o) == IF data_type(o) = "OrderedDict" THEN OrderedDict(<<>>) ELSE None

\* isinstance(data, self.data_type)
isinstance(v, type) == v.t = type

\* ------------------------------------------------------- the program state
\* A state of the program, as a record, so that a method is an operator from
\* states to states and a method calling another is a composition:
\*   disk     path -> Dir | FileOf(doc), for the paths that exist
\*   cache    the live instances (the WeakCache of every class)
\*   held     the instances the caller holds a reference to
\*   unsaved  Deferred._unsaved_changes   pending  Deferred._pending_deletion
\*   init     Serializer._initialized
\*   data     Serializer._data, of the live Serializers
\*   memory   Directory._memory, of the live directories (the names; a name maps
\*            to the instance create_group made for it, and goes when that dies)
\*   ledger   File.unsaved_changes: entries [path, obj]

Ok(s, ret) == [st |-> s, err |-> "", ret |-> ret]
Raise(s, err) == [st |-> s, err |-> err, ret |-> None]

exists(s, p) == normpath(p) \in DOMAIN s.disk
isdir(s, p) == exists(s, p) /\ s.disk[normpath(p)].kind = "dir"
isfile(s, p) == exists(s, p) /\ s.disk[normpath(p)].kind = "file"

\* shutil.rmtree(path)
rmtree(disk, p) ==
    [q \in {x \in DOMAIN disk : x # p /\ ~startswith(x, p \o <<Sep>>)} |-> disk[q]]

\* os.remove(path)
remove(disk, p) == [q \in DOMAIN disk \ {p} |-> disk[q]]

\* os.makedirs(directory): the directory and every missing ancestor
makedirs(disk, p) ==
    LET ancestors == {SubSeq(p, 1, i - 1) : i \in {j \in 1..Len(p) : p[j] = Sep}}
    IN [q \in DOMAIN disk \cup ancestors \cup {p} |->
          IF q \in DOMAIN disk THEN disk[q] ELSE Dir]

\* open(path, "w") and json.dump
write_file(disk, p, doc) ==
    [q \in DOMAIN disk \cup {p} |-> IF q = p THEN FileOf(doc) ELSE disk[q]]

\* WeakCache.__call__: the cached instance, or a new one. A dead instance has the
\* state __init__ gives, so constructing is joining the cache; Directory.__init__
\* constructs the three containers the same way.
construct(s, o) ==
    IF o \in s.cache THEN s
    ELSE LET new == ({o} \cup (IF IsDir(o) THEN containers(o) ELSE {})) \ s.cache
             sers == {x \in new : ~IsDir(x)}
         IN [s EXCEPT
               !.cache = @ \cup new,
               !.data = [x \in DOMAIN @ \cup sers |->
                           IF x \in DOMAIN @ THEN @[x] ELSE default(x)],
               !.memory = [x \in DOMAIN @ \cup (new \ sers) |->
                             IF x \in DOMAIN @ THEN @[x] ELSE {}]]

\* a ledger that would hold its values weakly
live_weak(s) ==
    LET roots == s.held \cup {FileObj}
    IN roots \cup UNION {containers(d) : d \in {o \in roots : IsDir(o)}}

\* The instances a reference reaches: the caller's, the root, the ledger's values,
\* and the containers a live directory holds in _meta, _attr and _data_set.
live(s) ==
    LET roots == s.held \cup {FileObj} \cup {e.obj : e \in s.ledger}
    IN roots \cup UNION {containers(d) : d \in {o \in roots : IsDir(o)}}

\* Reference counting: an instance no reference reaches is freed at once, leaves
\* its WeakCache and every _memory; its fields are those of a new instance.
collect(s) ==
    LET lv == live(s) \cap s.cache
    IN [s EXCEPT
          !.cache = lv,
          !.unsaved = @ \cap lv,
          !.pending = @ \cap lv,
          !.init = @ \cap lv,
          !.data = [o \in DOMAIN @ \cap lv |-> @[o]],
          !.memory = [d \in DOMAIN @ \cap lv |->
                        {n \in @[d] : Obj("Directory", join(path(d), n)) \in lv}]]

\* ------------------------------------------------------------------- File

\* File.handle_unsaved_changes: self is the File, so the key popped is the root's
handle_unsaved_changes(s, serializer, add) ==
    IF add
    THEN [s EXCEPT !.ledger = {e \in @ : e.path # path(serializer)}
                               \cup {[path |-> path(serializer), obj |-> serializer]}]
    ELSE [s EXCEPT !.ledger = {e \in @ : e.path # path(FileObj)}]

\* --------------------------------------------------------------- Deferred

\* Deferred.set_unsaved_changes
set_unsaved_changes(s, o, state) ==
    LET s1 == handle_unsaved_changes(s, o, state)
    IN [s1 EXCEPT !.unsaved = IF state THEN @ \cup {o} ELSE @ \ {o}]

\* Deferred.has_unsaved_changes, File.has_unsaved_changes
has_unsaved_changes(s, o) ==
    IF o.cls = "File" THEN s.ledger # {} ELSE o \in s.unsaved

\* Deferred.pending_deletion
pending_deletion(s, o) == o \in s.pending

\* Object.delete: a directory goes with its content, a file alone
Object_delete(s, o) ==
    IF isdir(s, path(o)) THEN [s EXCEPT !.disk = rmtree(@, path(o))]
    ELSE IF isfile(s, path(o)) THEN [s EXCEPT !.disk = remove(@, path(o))]
    ELSE s

\* a commit that forgets the deletion
Deferred_commit_keep(s, o) ==
    set_unsaved_changes([s EXCEPT !.pending = @ \ {o}], o, FALSE)

\* Deferred.commit
Deferred_commit(s, o) ==
    LET s1 == IF o \in s.pending /\ exists(s, path(o)) THEN Object_delete(s, o) ELSE s
        s2 == [s1 EXCEPT !.pending = @ \ {o}]
    IN set_unsaved_changes(s2, o, FALSE)

\* a delete that removes the path at once
Deferred_delete_eager(s, o) ==
    set_unsaved_changes([Object_delete(s, o) EXCEPT !.pending = @ \cup {o}], o, TRUE)

\* Deferred.delete
Deferred_delete(s, o) ==
    set_unsaved_changes([s EXCEPT !.pending = @ \cup {o}], o, TRUE)

\* -------------------------------------------------------------- Serializer

\* a getter that counts a failed load as a load
Serializer_data_get_failed(s, o) ==
    IF o \notin s.init /\ exists(s, path(o))
    THEN IF ~isfile(s, path(o))
         THEN Raise(s, "IOError")
         ELSE IF s.disk[path(o)].doc = Invalid
         THEN Raise(set_unsaved_changes([s EXCEPT !.init = @ \cup {o}], o, FALSE),
                    "RuntimeError")
         ELSE LET s1 == [s EXCEPT !.data[o] = json_load(s.disk[path(o)].doc),
                                  !.init = @ \cup {o}]
                  s2 == set_unsaved_changes(s1, o, FALSE)
              IN Ok(s2, s2.data[o])
    ELSE Ok(s, s.data[o])

\* Serializer.data (getter): the first read of an existing file loads it. open
\* fails on a directory, json.load on a file that holds no JSON (the except clause
\* cannot rebuild a JSONDecodeError from a message and raises RuntimeError);
\* either leaves the fields as they were.
Serializer_data_get(s, o) ==
    IF o \notin s.init /\ exists(s, path(o))
    THEN IF ~isfile(s, path(o))
         THEN Raise(s, "IOError")
         ELSE IF s.disk[path(o)].doc = Invalid
         THEN Raise(s, "RuntimeError")
         ELSE LET s1 == [s EXCEPT !.data[o] = json_load(s.disk[path(o)].doc),
                                  !.init = @ \cup {o}]
                  s2 == set_unsaved_changes(s1, o, FALSE)
              IN Ok(s2, s2.data[o])
    ELSE Ok(s, s.data[o])

\* a setter that leaves a staged deletion staged
Serializer_data_set_pending(s, o, value) ==
    IF data_type(o) # "None" /\ ~isinstance(value, data_type(o))
    THEN Raise(s, "ValueError")
    ELSE LET s1 == [s EXCEPT !.data[o] = value, !.init = @ \cup {o}]
         IN Ok(set_unsaved_changes(s1, o, TRUE), None)

\* a setter that validates after it has assigned
Serializer_data_set_late(s, o, value) ==
    LET s1 == [s EXCEPT !.data[o] = value,
                        !.init = @ \cup {o},
                        !.pending = @ \ {o}]
        s2 == set_unsaved_changes(s1, o, TRUE)
    IN IF data_type(o) # "None" /\ ~isinstance(value, data_type(o))
       THEN Raise(s2, "ValueError")
       ELSE Ok(s2, None)

\* Serializer.data (setter)
Serializer_data_set(s, o, value) ==
    IF data_type(o) # "None" /\ ~isinstance(value, data_type(o))
    THEN Raise(s, "ValueError")
    ELSE LET s1 == [s EXCEPT !.data[o] = value,
                             !.init = @ \cup {o},
                             !.pending = @ \ {o}]
         IN Ok(set_unsaved_changes(s1, o, TRUE), None)

\* Serializer.commit
Serializer_commit(s, o) ==
    LET s1 == IF o \in s.pending
              THEN Deferred_commit(s, o)
              ELSE LET directory == split_head(path(o))
                       d1 == IF ~exists(s, directory) THEN makedirs(s.disk, directory)
                             ELSE s.disk
                   IN [s EXCEPT !.disk = write_file(d1, path(o), json_dump(s.data[o]))]
        s2 == [s1 EXCEPT !.init = @ \cup {o}, !.pending = @ \ {o}]
    IN set_unsaved_changes(s2, o, FALSE)

\* a clear_cache that keeps the data it holds
Serializer_clear_cache_stale(s, o, commit_changes) ==
    IF commit_changes /\ has_unsaved_changes(s, o)
    THEN Serializer_commit(s, o)
    ELSE set_unsaved_changes(s, o, FALSE)

\* Serializer.clear_cache
Serializer_clear_cache(s, o, commit_changes) ==
    LET s1 == IF commit_changes /\ has_unsaved_changes(s, o)
              THEN Serializer_commit(s, o)
              ELSE set_unsaved_changes(s, o, FALSE)
    IN [s1 EXCEPT !.data[o] = default(o), !.init = @ \ {o}, !.pending = @ \ {o}]

\* Serializer.delete
Serializer_delete(s, o) ==
    LET s1 == Deferred_delete(s, o)
    IN [s1 EXCEPT !.data[o] = default(o), !.init = @ \ {o}]

\* --------------------------------------------------------------- Attribute

\* Attribute.__setitem__; data loaded from a file that holds no object takes no
\* subscript
Attribute_setitem(s, o, key, value) ==
    LET r == Serializer_data_get(s, o)
    IN IF r.err # "" THEN r
       ELSE IF r.st.data[o].t # "OrderedDict" THEN Raise(r.st, "TypeError")
       ELSE LET s1 == [r.st EXCEPT !.data[o] = odict_set(@, key, value)]
            IN Ok(set_unsaved_changes(s1, o, TRUE), None)

\* Attribute.__delitem__
Attribute_delitem(s, o, item) ==
    LET r == Serializer_data_get(s, o)
    IN IF r.err # "" THEN r
       ELSE IF r.st.data[o].t # "OrderedDict" THEN Raise(r.st, "TypeError")
       ELSE IF ~odict_has(r.st.data[o], item) THEN Raise(r.st, "KeyError")
       ELSE LET s1 == [r.st EXCEPT !.data[o] = odict_del(@, item)]
            IN Ok(set_unsaved_changes(s1, o, TRUE), None)

\* Attribute.__getitem__
Attribute_getitem(s, o, item) ==
    LET r == Serializer_data_get(s, o)
    IN IF r.err # "" THEN r
       ELSE IF r.st.data[o].t # "OrderedDict" THEN Raise(r.st, "TypeError")
       ELSE IF ~odict_has(r.st.data[o], item) THEN Raise(r.st, "KeyError")
       ELSE Ok(r.st, odict_get(r.st.data[o], item))

\* ----------------------------------------------------------------- DataSet

\* DataSet.serializer: the sibling, through the WeakCache of Serializer
DataSet_serializer(s, o, item) ==
    Ok(construct(s, serializer_of(o, item)), serializer_of(o, item))

\* DataSet.__setitem__
DataSet_setitem(s, o, key, value) ==
    LET r == Attribute_setitem(s, o, key, None)
    IN IF r.err # "" THEN r
       ELSE LET c == DataSet_serializer(r.st, o, key)
            IN Serializer_data_set(c.st, c.ret, value)

\* a removal that leaves the sibling alone
DataSet_delitem_manifest(s, o, item) ==
    Attribute_delitem(s, o, item)

\* DataSet.__delitem__
DataSet_delitem(s, o, item) ==
    LET r == Attribute_delitem(s, o, item)
    IN IF r.err # "" THEN r
       ELSE LET c == DataSet_serializer(r.st, o, item)
            IN Ok(Serializer_delete(c.st, c.ret), None)

\* DataSet.__getitem__
DataSet_getitem(s, o, item) ==
    LET r == Attribute_getitem(s, o, item)
    IN IF r.err # "" THEN r
       ELSE LET c == DataSet_serializer(r.st, o, item)
            IN Serializer_data_get(c.st, c.ret)

\* --------------------------------------------------------------- Directory

\* Directory.__getitem__
Directory_getitem(s, d, item) ==
    IF item \in s.memory[d]
    THEN Ok(s, Obj("Directory", join(path(d), item)))
    ELSE LET p == normpath(join(path(d), item))
         IN IF ~exists(s, p) THEN Raise(s, "KeyError")
            ELSE IF ~isdir(s, p) THEN Raise(s, "KeyError")
            ELSE LET obj == Obj("Directory", p)
                     s1 == construct(s, obj)
                 IN IF pending_deletion(s1, obj) THEN Raise(s1, "KeyError")
                    ELSE Ok(s1, obj)

\* Directory.__delitem__
Directory_delitem(s, d, item) ==
    LET r == Directory_getitem(s, d, item)
    IN IF r.err # "" THEN r ELSE Ok(Deferred_delete(r.st, r.ret), None)

\* Directory.file, of every directory of the state: the one File there is
file(s) == CHOOSE f \in s.cache : f.cls = "File"

\* Directory.parent
Directory_parent(s, d) ==
    LET parent_directory == split_head(path(d))
    IN IF path(file(s)) = path(d) THEN Raise(s, "OSError")
       ELSE IF parent_directory = path(file(s)) THEN Ok(s, file(s))
       ELSE LET o == Obj("Directory", parent_directory)
            IN Ok(construct(s, o), o)

\* a create_group that does not look at the disk
create_group_unchecked(s, d, name) ==
    LET directory_object == Obj("Directory", join(path(d), name))
    IN Ok([construct(s, directory_object) EXCEPT !.memory[d] = @ \cup {name}],
          directory_object)

\* Directory.create_group
create_group(s, d, name) ==
    LET directory == join(path(d), name)
    IN IF exists(s, directory) THEN Raise(s, "OSError")
       ELSE LET directory_object == Obj("Directory", directory)
                s1 == construct(s, directory_object)
            IN Ok([s1 EXCEPT !.memory[d] = @ \cup {name}], directory_object)

\* Directory.require_group
require_group(s, d, name) ==
    LET r == Directory_getitem(s, d, name)
    IN IF r.err = "KeyError" THEN create_group(r.st, d, name) ELSE r

\* next(os.walk(path))[1]: the names of the directories in the directory
listdirs(disk, p) ==
    {SubSeq(q, Len(p) + 2, Len(q)) :
        q \in {x \in DOMAIN disk :
                  /\ disk[x].kind = "dir"
                  /\ startswith(x, p \o <<Sep>>)
                  /\ \A i \in (Len(p) + 2)..Len(x) : x[i] # Sep}}

\* the loop of Directory.__iter__ over the sorted names
RECURSIVE yield_each(_, _, _, _)
yield_each(s, d, names, yielded) ==
    IF names = <<>> THEN Ok(s, List(yielded))
    ELSE LET obj == Obj("Directory", join(path(d), Head(names)))
             s1 == construct(s, obj)
         IN yield_each(s1, d, Tail(names),
                       IF pending_deletion(s1, obj) THEN yielded
                       ELSE Append(yielded, obj))

\* Directory.__iter__, read to its end. os.walk of a path that is no directory
\* yields nothing, so next() raises StopIteration inside the generator: the
\* iteration ends there in silence, or, where PEP 479 is in force (Python 3.7 and
\* later), raises RuntimeError.
Directory_iter(s, d, pep479) ==
    IF ~isdir(s, path(d))
    THEN IF pep479 THEN Raise(s, "RuntimeError") ELSE Ok(s, List(<<>>))
    ELSE yield_each(s, d, sorted(listdirs(s.disk, path(d)) \cup s.memory[d]), <<>>)

\* Directory.__len__
Directory_len(s, d, pep479) ==
    LET r == Directory_iter(s, d, pep479)
    IN IF r.err # "" THEN r ELSE Ok(r.st, Int(Len(r.ret.items)))

\* the order in which a loop visits a set: some enumeration of it
RECURSIVE enumerate(_)
enumerate(set) ==
    IF set = {} THEN <<>>
    ELSE LET x == CHOOSE y \in set : TRUE IN <<x>> \o enumerate(set \ {x})

\* Directory.clear_cache: every live Serializer, Attribute and DataSet whose path
\* starts with the directory's
RECURSIVE clear_all(_, _, _)
clear_all(s, instances, commit_changes) ==
    IF instances = <<>> THEN s
    ELSE clear_all(Serializer_clear_cache(s, Head(instances), commit_changes),
                   Tail(instances), commit_changes)

Directory_clear_cache(s, d, commit_changes) ==
    LET instances(cls) ==
            enumerate({o \in s.cache : o.cls = cls /\ startswith(path(o), path(d))})
    IN clear_all(s,
                 instances("Serializer") \o instances("Attribute") \o instances("DataSet"),
                 commit_changes)

\* -------------------------------------------------------------------- File

\* X.commit, by the class of X
commit(s, o) ==
    IF IsDir(o) THEN Deferred_commit(s, o) ELSE Serializer_commit(s, o)

\* File.commit: every value of the ledger, in the order the dict gives them, then
\* the ledger is emptied
RECURSIVE commit_each(_, _)
commit_each(s, order) ==
    IF order = <<>> THEN s
    ELSE commit_each(commit(s, Head(order)), Tail(order))

\* a commit of the first entry only
File_commit_first(s, order) ==
    [(IF order = <<>> THEN s ELSE commit(s, Head(order))) EXCEPT !.ledger = {}]

File_commit(s, order) ==
    [commit_each(s, order) EXCEPT !.ledger = {}]

\* a value json.dump raises TypeError on (a set, say); a Serializer, whose
\* data_type is None, accepts it
Unserializable == [t |-> "set"]

\* Serializer.commit raising in json.dump: the directories are made and the file
\* is opened for writing, so it is left empty; no field is assigned
Serializer_commit_raise(s, o) ==
    LET directory == split_head(path(o))
        d1 == IF ~exists(s, directory) THEN makedirs(s.disk, directory) ELSE s.disk
    IN [s EXCEPT !.disk = write_file(d1, path(o), Invalid)]

\* the entries of the ledger whose commit raises
raises(s, o) == ~IsDir(o) /\ o \notin s.pending /\ s.data[o] = Unserializable

\* a File.commit that clears the ledger although an entry's commit raised
File_commit_try_clear(s, order) ==
    LET bad == {i \in 1..Len(order) : raises(s, order[i])}
    IN IF bad = {} THEN Ok(File_commit(s, order), None)
       ELSE LET k == CHOOSE i \in bad : \A j \in bad : i <= j
                s1 == commit_each(s, SubSeq(order, 1, k - 1))
            IN Raise([Serializer_commit_raise(s1, order[k]) EXCEPT !.ledger = {}],
                     "TypeError")

\* File.commit, as the caller sees it: the loop stops at the first entry whose
\* commit raises, the exception propagates and unsaved_changes.clear() is not
\* reached
File_commit_try(s, order) ==
    LET bad == {i \in 1..Len(order) : raises(s, order[i])}
    IN IF bad = {} THEN Ok(File_commit(s, order), None)
       ELSE LET k == CHOOSE i \in bad : \A j \in bad : i <= j
                s1 == commit_each(s, SubSeq(order, 1, k - 1))
            IN Raise(Serializer_commit_raise(s1, order[k]), "TypeError")

\* File.commit when the File is a value of its own ledger (after file.delete()).
\* If the loop reaches the File first, serializer.commit() is File.commit again,
\* without end: RecursionError, nothing done. Otherwise the first value is
\* committed, its set_unsaved_changes(False) pops the File's key from the dict
\* being iterated, and the loop's next step raises RuntimeError (dictionary
\* changed size during iteration); the ledger is not cleared.
File_commit_self(s, order) ==
    IF Head(order) = FileObj THEN Raise(s, "RecursionError")
    ELSE Raise(commit(s, Head(order)), "RuntimeError")

\* ------------------------------------------------------- state and actions

VARIABLES disk, cache, held, unsaved, pending, init, data, memory, ledger, last, ops

vars == <<disk, cache, held, unsaved, pending, init, data, memory, ledger, last, ops>>

\* the current state, as the record the methods work on
S == [disk |-> disk, cache |-> cache, held |-> held, unsaved |-> unsaved,
      pending |-> pending, init |-> init, data |-> data, memory |-> memory,
      ledger |-> ledger]

\* A call returns: what it left of the state, less the instances nothing refers
\* to any more, and the call, its argument, its error and its result as the caller
\* saw them.
Return(op, o, arg, result) ==
    \E r \in {result} : \E s \in {collect(r.st)} :
       /\ disk' = s.disk
       /\ cache' = s.cache
       /\ held' = s.held
       /\ unsaved' = s.unsaved
       /\ pending' = s.pending
       /\ init' = s.init
       /\ data' = s.data
       /\ memory' = s.memory
       /\ ledger' = s.ledger
       /\ last' = [op |-> op, obj |-> o, arg |-> arg, err |-> r.err, ret |-> r.ret]

\* What File(directory) may find on disk: an empty directory, or one child "a" with
\* its attributes, its data set manifest and the document of the key "k".
EmptyDisk == [q \in {RootPath} |-> Dir]

PopulatedDisk ==
    LET a == join(RootPath, NameA)
    IN write_file(
         write_file(
           write_file(makedirs(EmptyDisk, a), join(a, AttrName),
                      json_dump(OrderedDict(<<[k |-> KeyX, v |-> Int(1)]>>))),
           join(a, DataSetName),
           json_dump(OrderedDict(<<[k |-> KeyK, v |-> None]>>))),
         join(a, KeyK), json_dump(Int(1)))

InitialDisks == {EmptyDisk, PopulatedDisk}

\* File(directory), on an existing directory
Init ==
    /\ disk \in InitialDisks
    /\ ops = 0
    /\ cache = {FileObj} \cup containers(FileObj)
    /\ held = {}
    /\ unsaved = {}
    /\ pending = {}
    /\ init = {}
    /\ data = [o \in containers(FileObj) |-> default(o)]
    /\ memory = [d \in {FileObj} |-> {}]
    /\ ledger = {}
    /\ last = [op |-> "File", obj |-> FileObj, arg |-> None, err |-> "", ret |-> FileObj]

\* the directories the caller can call: the root and those it holds
Callable == {FileObj} \cup {d \in held : IsDir(d)}

\* the caller keeps the directory a lookup returned
Keep(r) == IF r.err = "" THEN [r EXCEPT !.st.held = @ \cup {r.ret}] ELSE r

\* child = directory.require_group(name)
RequireGroup(d, name) ==
    /\ d \in Callable
    /\ Return("require_group", d, Str(name), Keep(require_group(S, d, name)))

\* child = directory.create_group(name)
CreateGroup(d, name) ==
    /\ d \in Callable
    /\ Return("create_group", d, Str(name), Keep(create_group(S, d, name)))

\* child = directory[name]
GetItem(d, name) ==
    /\ d \in Callable
    /\ Return("getitem", d, Str(name), Keep(Directory_getitem(S, d, name)))

\* parent = directory.parent
Parent(d) ==
    /\ d \in held
    /\ IsDir(d)
    /\ Return("parent", d, None, Keep(Directory_parent(S, d)))

\* del directory[name]
DelItem(d, name) ==
    /\ d \in Callable
    /\ Return("delitem", d, Str(name), Directory_delitem(S, d, name))

\* the caller lets go of a directory
Drop(d) ==
    /\ d \in held
    /\ Return("drop", d, None, Ok([S EXCEPT !.held = @ \ {d}], None))

\* directory.delete(), on a child
DirDelete(d) ==
    /\ d \in held
    /\ Return("delete", d, None, Ok(Deferred_delete(S, d), None))

\* directory.commit(), on a child
DirCommit(d) ==
    /\ d \in held
    /\ Return("commit", d, None, Ok(Deferred_commit(S, d), None))

\* list(directory); the caller keeps none of the directories it was given
Children(d, pep479) ==
    /\ d \in Callable
    /\ Return("children", d, None, Directory_iter(S, d, pep479))

\* len(directory)
Size(d, pep479) ==
    /\ d \in Callable
    /\ Return("size", d, None, Directory_len(S, d, pep479))

\* directory.clear_cache(commit_changes)
DirClearCache(d, commit_changes) ==
    /\ d \in Callable
    /\ Return("dir_clear_cache", d, Bool(commit_changes),
              Ok(Directory_clear_cache(S, d, commit_changes), None))

\* the Serializers, Attributes and DataSets the caller can call: the containers of a
\* directory it can call, and a sibling through data_set.serializer(key)
Accessible(c) ==
    \E d \in Callable : c \in containers(d) \cup {serializer_of(data_set_of(d), KeyK)}

\* what the caller calls a method of: the instance is looked up first
At(c) == construct(S, c)

\* _ = serializer.data
Read(c) ==
    /\ Accessible(c)
    /\ Return("read", c, None, Serializer_data_get(At(c), c))

\* serializer.data = value
Write(c, value) ==
    /\ Accessible(c)
    /\ Return("write", c, value, Serializer_data_set(At(c), c, value))

\* serializer.commit()
Commit(c) ==
    /\ Accessible(c)
    /\ Return("commit", c, None, Ok(Serializer_commit(At(c), c), None))

\* serializer.delete()
Delete(c) ==
    /\ Accessible(c)
    /\ Return("delete", c, None, Ok(Serializer_delete(At(c), c), None))

\* serializer.clear_cache(commit_changes)
ClearCache(c, commit_changes) ==
    /\ Accessible(c)
    /\ Return("clear_cache", c, Bool(commit_changes),
              Ok(Serializer_clear_cache(At(c), c, commit_changes), None))

\* serializer.set_unsaved_changes(state)
SetUnsavedChanges(c, state) ==
    /\ Accessible(c)
    /\ Return("set_unsaved_changes", c, Bool(state),
              Ok(set_unsaved_changes(At(c), c, state), None))

\* attribute[key] = value
AttrSet(c, key, value) ==
    /\ Accessible(c) /\ c.cls = "Attribute"
    /\ Return("set", c, value, Attribute_setitem(S, c, key, value))

\* del attribute[key]
AttrDel(c, key) ==
    /\ Accessible(c) /\ c.cls = "Attribute"
    /\ Return("remove", c, None, Attribute_delitem(S, c, key))

\* attribute[key]
AttrGet(c, key) ==
    /\ Accessible(c) /\ c.cls = "Attribute"
    /\ Return("get", c, None, Attribute_getitem(S, c, key))

\* data_set[key] = value
DsSet(c, key, value) ==
    /\ Accessible(c) /\ c.cls = "DataSet"
    /\ Return("set", c, value, DataSet_setitem(S, c, key, value))

\* del data_set[key]
DsDel(c, key) ==
    /\ Accessible(c) /\ c.cls = "DataSet"
    /\ Return("remove", c, None, DataSet_delitem(S, c, key))

\* data_set[key]
DsGet(c, key) ==
    /\ Accessible(c) /\ c.cls = "DataSet"
    /\ Return("get", c, None, DataSet_getitem(S, c, key))

\* the orders a loop over a dict's values may take
RECURSIVE Orders(_)
Orders(set) ==
    IF set = {} THEN {<<>>}
    ELSE UNION {{<<x>> \o rest : rest \in Orders(set \ {x})} : x \in set}

\* file.commit(); the root itself is not an entry of the ledger here
RootCommit ==
    /\ FileObj \notin {e.obj : e \in ledger}
    /\ \E order \in Orders({e.obj : e \in ledger}) :
          Return("root_commit", FileObj, None, File_commit_try(S, order))

\* ---------------------------------------------------------- specifications

\* the number of calls a behaviour of Spec makes
MaxOps == 4

\* a call is counted, or not
Tick == ops < MaxOps /\ ops' = ops + 1
Idle == ops' = ops

DirA == Obj("Directory", join(RootPath, NameA))
DirAB == Obj("Directory", join(RootPath, NameAB))

AttrA == attr_of(DirA)
AttrAB == attr_of(DirAB)
DataSetA == data_set_of(DirA)
SiblingA == serializer_of(DataSetA, KeyK)

\* the values written to a Serializer, and set in an Attribute
WriteValues == {Int(1), Int(2), OrderedDict(<<>>)}
SetValues == {Int(1)}

\* Spec: every operation, on the child "a", its attributes, its data set and the
\* sibling of the key "k", in behaviours of at most MaxOps calls.
Targets == {AttrA, DataSetA, SiblingA}

Next ==
    \/ \E n \in {NameA} : Tick /\ RequireGroup(FileObj, n)
    \/ \E n \in {NameA} : Tick /\ CreateGroup(FileObj, n)
    \/ \E n \in {NameA} : Tick /\ GetItem(FileObj, n)
    \/ \E n \in {NameA} : Tick /\ DelItem(FileObj, n)
    \/ \E d \in {DirA} : Tick /\ Drop(d)
    \/ \E d \in {DirA} : Tick /\ DirDelete(d)
    \/ \E d \in {DirA} : Tick /\ DirCommit(d)
    \/ \E d \in {FileObj, DirA}, b \in BOOLEAN : Tick /\ DirClearCache(d, b)
    \/ \E c \in Targets : Tick /\ Read(c)
    \/ \E c \in Targets, v \in WriteValues : Tick /\ Write(c, v)
    \/ \E c \in Targets : Tick /\ Commit(c)
    \/ \E c \in Targets : Tick /\ Delete(c)
    \/ \E c \in Targets, b \in BOOLEAN : Tick /\ ClearCache(c, b)
    \/ \E c \in Targets, b \in BOOLEAN : Tick /\ SetUnsavedChanges(c, b)
    \/ \E c \in {AttrA}, v \in SetValues : Tick /\ AttrSet(c, KeyX, v)
    \/ \E c \in {AttrA} : Tick /\ AttrDel(c, KeyX)
    \/ \E c \in {AttrA} : Tick /\ AttrGet(c, KeyX)
    \/ \E c \in {DataSetA}, v \in WriteValues : Tick /\ DsSet(c, KeyK, v)
    \/ \E c \in {DataSetA} : Tick /\ DsDel(c, KeyK)
    \/ \E c \in {DataSetA} : Tick /\ DsGet(c, KeyK)
    \/ Tick /\ RootCommit

Spec == Init /\ [][Next]_vars

\* SpecAttribute: the child "a" and its attributes, any number of calls.
NextAttribute ==
    \/ \E n \in {NameA} : Idle /\ RequireGroup(FileObj, n)
    \/ \E n \in {NameA} : Idle /\ CreateGroup(FileObj, n)
    \/ \E n \in {NameA} : Idle /\ GetItem(FileObj, n)
    \/ \E n \in {NameA} : Idle /\ DelItem(FileObj, n)
    \/ \E d \in {DirA} : Idle /\ Drop(d)
    \/ \E d \in {DirA} : Idle /\ DirDelete(d)
    \/ \E d \in {DirA} : Idle /\ DirCommit(d)
    \/ \E d \in {FileObj, DirA}, b \in BOOLEAN : Idle /\ DirClearCache(d, b)
    \/ \E c \in {AttrA} : Idle /\ Read(c)
    \/ \E c \in {AttrA}, v \in WriteValues : Idle /\ Write(c, v)
    \/ \E c \in {AttrA} : Idle /\ Commit(c)
    \/ \E c \in {AttrA} : Idle /\ Delete(c)
    \/ \E c \in {AttrA}, b \in BOOLEAN : Idle /\ ClearCache(c, b)
    \/ \E c \in {AttrA}, b \in BOOLEAN : Idle /\ SetUnsavedChanges(c, b)
    \/ \E c \in {AttrA}, v \in SetValues : Idle /\ AttrSet(c, KeyX, v)
    \/ \E c \in {AttrA} : Idle /\ AttrDel(c, KeyX)
    \/ \E c \in {AttrA} : Idle /\ AttrGet(c, KeyX)
    \/ Idle /\ RootCommit

SpecAttribute == Init /\ [][NextAttribute]_vars

\* SpecDataSet: the child "a", its data set and the sibling of the key "k".
NextDataSet ==
    \/ \E n \in {NameA} : Idle /\ RequireGroup(FileObj, n)
    \/ \E d \in {FileObj, DirA}, b \in BOOLEAN : Idle /\ DirClearCache(d, b)
    \/ \E c \in {DataSetA, SiblingA} : Idle /\ Read(c)
    \/ \E c \in {SiblingA}, v \in WriteValues : Idle /\ Write(c, v)
    \/ \E c \in {DataSetA, SiblingA} : Idle /\ Commit(c)
    \/ \E c \in {DataSetA, SiblingA} : Idle /\ Delete(c)
    \/ \E c \in {DataSetA, SiblingA}, b \in BOOLEAN : Idle /\ ClearCache(c, b)
    \/ \E c \in {DataSetA}, v \in WriteValues : Idle /\ DsSet(c, KeyK, v)
    \/ \E c \in {DataSetA} : Idle /\ DsDel(c, KeyK)
    \/ \E c \in {DataSetA} : Idle /\ DsGet(c, KeyK)
    \/ Idle /\ RootCommit

SpecDataSet == Init /\ [][NextDataSet]_vars

\* SpecMutations: the children "a" and "ab", mutations of their attributes and of
\* the data set of "a", and the root's commit.
NextMutations ==
    \/ \E n \in {NameA, NameAB} : Idle /\ RequireGroup(FileObj, n)
    \/ \E d \in {DirA, DirAB} : Idle /\ Drop(d)
    \/ \E c \in {AttrA, AttrAB}, v \in SetValues : Idle /\ AttrSet(c, KeyX, v)
    \/ \E c \in {AttrA, AttrAB} : Idle /\ AttrDel(c, KeyX)
    \/ \E c \in {DataSetA}, v \in SetValues : Idle /\ DsSet(c, KeyK, v)
    \/ \E c \in {DataSetA} : Idle /\ DsDel(c, KeyK)
    \/ Idle /\ RootCommit

SpecMutations == Init /\ [][NextMutations]_vars

\* SpecIdentity: the child "a" looked up under its two spellings "a" and "a/".
DirASlash == Obj("Directory", join(RootPath, NameASlash))

NextIdentity ==
    \/ \E n \in {NameA, NameASlash} : Idle /\ RequireGroup(FileObj, n)
    \/ \E n \in {NameA, NameASlash} : Idle /\ CreateGroup(FileObj, n)
    \/ \E n \in {NameA, NameASlash} : Idle /\ GetItem(FileObj, n)
    \/ \E d \in {DirA, DirASlash} : Idle /\ Drop(d)
    \/ \E c \in {AttrA}, v \in SetValues : Idle /\ AttrSet(c, KeyX, v)
    \/ \E c \in {AttrA} : Idle /\ AttrDel(c, KeyX)
    \/ Idle /\ RootCommit

SpecIdentity == Init /\ [][NextIdentity]_vars

\* SpecChildren: the children "a" and "ab" of the root and the child "b" of "a",
\* looked up, dropped, deleted, brought to disk by a commit, and enumerated.
NameB == <<"b">>

DirA_B == Obj("Directory", join(path(DirA), NameB))

NextChildren ==
    \/ \E n \in {NameA, NameAB} : Idle /\ RequireGroup(FileObj, n)
    \/ \E n \in {NameB} : Idle /\ RequireGroup(DirA, n)
    \/ \E d \in {DirA, DirAB, DirA_B} : Idle /\ Drop(d)
    \/ \E n \in {NameA, NameAB} : Idle /\ DelItem(FileObj, n)
    \/ \E c \in {AttrA}, v \in SetValues : Idle /\ AttrSet(c, KeyX, v)
    \/ \E d \in {FileObj, DirA}, pep479 \in BOOLEAN : Idle /\ Children(d, pep479)
    \/ \E d \in {FileObj, DirA}, pep479 \in BOOLEAN : Idle /\ Size(d, pep479)
    \/ Idle /\ RootCommit

SpecChildren == Init /\ [][NextChildren]_vars

\* SpecCancel: the sibling of the key "k" under the child "a", read, written,
\* deleted and committed, while "a" itself may be staged for deletion.
NextCancel ==
    \/ \E n \in {NameA} : Idle /\ RequireGroup(FileObj, n)
    \/ \E n \in {NameA} : Idle /\ DelItem(FileObj, n)
    \/ \E c \in {SiblingA} : Idle /\ Read(c)
    \/ \E c \in {SiblingA}, v \in WriteValues : Idle /\ Write(c, v)
    \/ \E c \in {SiblingA} : Idle /\ Commit(c)
    \/ \E c \in {SiblingA} : Idle /\ Delete(c)
    \/ Idle /\ RootCommit

SpecCancel == Init /\ [][NextCancel]_vars

\* SpecClearCache: the children "a" and "ab" of the root, whose names share a
\* prefix, their attributes set, committed, and cleared from a directory.
NextClearCache ==
    \/ \E n \in {NameA, NameAB} : Idle /\ RequireGroup(FileObj, n)
    \/ \E d \in {DirA, DirAB} : Idle /\ Drop(d)
    \/ \E c \in {AttrA, AttrAB}, v \in SetValues : Idle /\ AttrSet(c, KeyX, v)
    \/ \E c \in {AttrA, AttrAB} : Idle /\ Delete(c)
    \/ \E d \in {FileObj, DirA, DirAB}, b \in BOOLEAN : Idle /\ DirClearCache(d, b)
    \/ Idle /\ RootCommit

SpecClearCache == Init /\ [][NextClearCache]_vars

\* SpecCollision: the data set of the child "a" given the key "k" and the key
\* ".attributes", the name of the file of the child's attributes.
NextCollision ==
    \/ \E n \in {NameA} : Idle /\ RequireGroup(FileObj, n)
    \/ \E d \in {DirA} : Idle /\ Drop(d)
    \/ \E c \in {AttrA}, v \in SetValues : Idle /\ AttrSet(c, KeyX, v)
    \/ \E c \in {AttrA} : Idle /\ Read(c)
    \/ \E c \in {DataSetA}, k \in {KeyK, AttrName}, v \in SetValues :
          Idle /\ DsSet(c, k, v)
    \/ Idle /\ RootCommit

SpecCollision == Init /\ [][NextCollision]_vars

\* file.delete()
RootDelete ==
    Return("delete", FileObj, None, Ok(Deferred_delete(S, FileObj), None))

\* file.commit(), the root being an entry of its own ledger
RootCommitSelf ==
    /\ FileObj \in {e.obj : e \in ledger}
    /\ \E order \in Orders({e.obj : e \in ledger}) :
          Return("root_commit", FileObj, None, File_commit_self(S, order))

\* SpecRootDelete: the attributes of the child "a" set and deleted, the root
\* deleted, and the root's commit.
NextRootDelete ==
    \/ \E n \in {NameA} : Idle /\ RequireGroup(FileObj, n)
    \/ \E d \in {DirA} : Idle /\ Drop(d)
    \/ \E c \in {AttrA}, v \in SetValues : Idle /\ AttrSet(c, KeyX, v)
    \/ \E c \in {AttrA} : Idle /\ Delete(c)
    \/ Idle /\ RootDelete
    \/ Idle /\ RootCommit
    \/ Idle /\ RootCommitSelf

SpecRootDelete == Init /\ [][NextRootDelete]_vars

\* Another process overwrites the file of a node with text that is no JSON
Corrupt(c) ==
    /\ Accessible(c)
    /\ isfile(S, path(c))
    /\ S.disk[path(c)].doc # Invalid
    /\ Return("corrupt", c, None,
              Ok([S EXCEPT !.disk = write_file(@, path(c), Invalid)], None))

\* and puts a document back
Repair(c, value) ==
    /\ Accessible(c)
    /\ isfile(S, path(c))
    /\ S.disk[path(c)].doc = Invalid
    /\ Return("repair", c, value,
              Ok([S EXCEPT !.disk = write_file(@, path(c), json_dump(value))], None))

\* the documents a repair puts back
RepairValues == {OrderedDict(<<>>), OrderedDict(<<[k |-> KeyX, v |-> Int(2)]>>)}

\* SpecReadFailure: the attributes of the child "a" read, set, deleted, cleared
\* and committed while their file is overwritten with text that does not parse,
\* and repaired.
NextReadFailure ==
    \/ \E n \in {NameA} : Idle /\ RequireGroup(FileObj, n)
    \/ \E c \in {AttrA} : Idle /\ Read(c)
    \/ \E c \in {AttrA}, v \in SetValues : Idle /\ AttrSet(c, KeyX, v)
    \/ \E c \in {AttrA} : Idle /\ Delete(c)
    \/ \E c \in {AttrA}, b \in BOOLEAN : Idle /\ ClearCache(c, b)
    \/ \E c \in {AttrA} : Idle /\ Commit(c)
    \/ \E c \in {AttrA} : Idle /\ Corrupt(c)
    \/ \E c \in {AttrA}, v \in RepairValues : Idle /\ Repair(c, v)

SpecReadFailure == Init /\ [][NextReadFailure]_vars

\* SpecCommitFailure: the attributes of the child "a" and the sibling of the key
\* "k" staged, the sibling with a value json.dump may raise on, and the root's
\* commit.
NextCommitFailure ==
    \/ \E n \in {NameA} : Idle /\ RequireGroup(FileObj, n)
    \/ \E d \in {DirA} : Idle /\ Drop(d)
    \/ \E c \in {AttrA}, v \in SetValues : Idle /\ AttrSet(c, KeyX, v)
    \/ \E c \in {AttrA, SiblingA} : Idle /\ Delete(c)
    \/ \E c \in {SiblingA}, v \in {Int(2), Unserializable} : Idle /\ Write(c, v)
    \/ Idle /\ RootCommit

SpecCommitFailure == Init /\ [][NextCommitFailure]_vars

\* SpecParent: File(directory) given the path of the root or, with the root as
\* the working directory, ".". The caller holds the File, looks up "a" under it
\* and "b" under "a", drops what it holds, and asks each for its parent.
DotFile == Obj("File", CurDir)

Roots == {FileObj, DotFile}

InitParent ==
    \E f \in Roots :
       /\ disk = [q \in {path(f)} |-> Dir]
       /\ ops = 0
       /\ cache = {f} \cup containers(f)
       /\ held = {f}
       /\ unsaved = {}
       /\ pending = {}
       /\ init = {}
       /\ data = [o \in containers(f) |-> default(o)]
       /\ memory = [d \in {f} |-> {}]
       /\ ledger = {}
       /\ last = [op |-> "File", obj |-> f, arg |-> None, err |-> "", ret |-> f]

ChildA(f) == Obj("Directory", join(path(f), NameA))

ChildA_B(f) == Obj("Directory", join(path(ChildA(f)), NameB))

NextParent ==
    \/ \E f \in Roots : Idle /\ f \in held /\ RequireGroup(f, NameA)
    \/ \E f \in Roots : Idle /\ f \in held /\ CreateGroup(f, NameA)
    \/ \E f \in Roots : Idle /\ f \in held /\ GetItem(f, NameA)
    \/ \E f \in Roots : Idle /\ RequireGroup(ChildA(f), NameB)
    \/ \E f \in Roots : Idle /\ GetItem(ChildA(f), NameB)
    \/ \E f \in Roots : Idle /\ Drop(ChildA(f))
    \/ \E f \in Roots : Idle /\ Drop(ChildA_B(f))
    \/ \E d \in held : Idle /\ Parent(d)

SpecParent == InitParent /\ [][NextParent]_vars

\* ------------------------------------------------------------------ claims

\* C1: mutations are deferred. A call changes the disk (the set of existing paths
\* or a document) only if it is a commit, of a node or of the root, or a clear_cache,
\* of a Serializer or of a Directory, with commit_changes true; every other call
\* (a write, a set, a remove, a delete, a lookup, a clear_cache without commit)
\* leaves the disk as it was.
MutationsDeferred ==
    [][disk' # disk =>
          \/ last'.op \in {"commit", "root_commit"}
          \/ last'.op \in {"clear_cache", "dir_clear_cache"} /\ last'.arg = Bool(TRUE)]_vars

\* a mutation has just been staged: the node is in the ledger, the disk has no
\* document for it yet
StagedMutation ==
    /\ last.op \in {"write", "set"}
    /\ last.err = ""
    /\ last.obj \in unsaved
    /\ path(last.obj) \notin DOMAIN disk

\* C2: deletion is deferred. After delete() on a node whose path exists the path
\* still exists and the node is pending deletion; commit() on a node pending
\* deletion leaves its path absent and clears pending_deletion and
\* has_unsaved_changes, and if the path was already absent the disk is unchanged.
DeferredDeletion ==
    [][LET o == last'.obj
       IN /\ (last'.op = "delete" /\ path(o) \in DOMAIN disk)
                => (path(o) \in DOMAIN disk' /\ o \in pending')
          /\ (last'.op = "commit" /\ o \in pending)
                => /\ path(o) \notin DOMAIN disk'
                   /\ o \notin pending'
                   /\ o \notin unsaved'
                   /\ (path(o) \notin DOMAIN disk => disk' = disk)]_vars

\* the attributes of "a" have just been committed and their document, which the
\* populated disk had beside the document of "k", is gone: a deletion was committed
DeletionCommitted ==
    /\ last.op = "commit"
    /\ last.obj = AttrA
    /\ path(AttrA) \notin DOMAIN disk
    /\ join(path(DirA), KeyK) \in DOMAIN disk
    /\ AttrA \notin pending

\* C3: a node other than the root is a value of the root's ledger exactly when its
\* has_unsaved_changes() is true.
LedgerIffUnsaved ==
    \A o \in cache \ {FileObj} :
       has_unsaved_changes(S, o) <=> (\E e \in ledger : e.obj = o)

\* C4: the ledger is complete. The root's commit writes every node that has
\* unsaved changes: its staged document is on disk afterwards, or its path is gone
\* if it was pending deletion, no node reports unsaved changes and the ledger is
\* empty.
LedgerComplete ==
    [][last'.op = "root_commit" =>
          /\ ledger' = {}
          /\ unsaved' = {}
          /\ \A o \in unsaved :
                IF o \in pending
                THEN path(o) \notin DOMAIN disk'
                ELSE /\ path(o) \in DOMAIN disk'
                     /\ disk'[path(o)] = FileOf(json_dump(data[o]))]_vars

\* the root's commit has returned and the attribute set on "ab", the manifest and
\* the document of "k" are on disk
RootCommitted ==
    /\ last.op = "root_commit"
    /\ path(AttrAB) \in DOMAIN disk
    /\ disk[path(AttrAB)] = FileOf(json_dump(OrderedDict(<<[k |-> KeyX, v |-> Int(1)]>>)))
    /\ path(DataSetA) \in DOMAIN disk
    /\ path(SiblingA) \in DOMAIN disk
    /\ path(AttrA) \notin DOMAIN disk

\* C5: identity. While the caller holds a Directory, a lookup that returns a
\* Directory of the same normalized path returns that very instance.
SameInstance ==
    (last.op \in {"require_group", "create_group", "getitem"} /\ last.err = "")
       => \A o \in held :
             (o.cls = last.ret.cls /\ path(o) = path(last.ret)) => o = last.ret

\* C6: type validation. Writing a value that is not an instance of the node's
\* data type fails with ValueError and leaves the node's data, initialized flag,
\* pending_deletion, has_unsaved_changes and the ledger (and all the rest of the
\* state) unchanged; any other write, and every write to a node without a data
\* type, succeeds and stages the value.
TypeValidation ==
    [][last'.op = "write" =>
          LET o == last'.obj
              value == last'.arg
          IN IF data_type(o) # "None" /\ ~isinstance(value, data_type(o))
             THEN /\ last'.err = "ValueError"
                  /\ UNCHANGED <<disk, cache, held, unsaved, pending, init, data,
                                 memory, ledger>>
             ELSE /\ last'.err = ""
                  /\ data'[o] = value
                  /\ o \in init' /\ o \in unsaved' /\ o \notin pending']_vars

\* a write was rejected by a node that has staged content
WriteRejected ==
    /\ last.op = "write"
    /\ last.err = "ValueError"
    /\ last.obj \in unsaved
    /\ data[last.obj] # default(last.obj)

\* what a read of the node returns in state s
ReadBack(s, o) == Serializer_data_get(construct(s, o), o).ret

\* what the disk d holds for the node: its document, or nothing and so the default
Committed(d, o) ==
    IF path(o) \in DOMAIN d THEN json_load(d[path(o)].doc) ELSE default(o)

\* C7: cache-clear round trip. After clear_cache(False) a read returns what is
\* committed on disk, not the staged value, and the node has no unsaved changes;
\* after a write of v followed by clear_cache(True) a read returns v. A
\* Directory's clear_cache does the same to the nodes below it: after
\* clear_cache(False) each reads back what is committed (a key set but not
\* committed is absent, a committed key is read back).
CacheClearRoundTrip ==
    [][LET o == last'.obj
       IN /\ (last'.op = "clear_cache" /\ last'.arg = Bool(FALSE))
                => /\ ReadBack(S', o) = Committed(disk, o)
                   /\ o \notin unsaved'
                   /\ disk' = disk
          /\ (/\ last'.op = "clear_cache" /\ last'.arg = Bool(TRUE)
              /\ last.op = "write" /\ last.err = "" /\ last.obj = o)
                => ReadBack(S', o) = last.arg
          /\ (last'.op = "dir_clear_cache" /\ last'.arg = Bool(FALSE))
                => /\ \A c \in cache' :
                         (~IsDir(c) /\ startswith(path(c), path(o)))
                            => (ReadBack(S', c) = Committed(disk, c) /\ c \notin unsaved')
                   /\ disk' = disk]_vars

\* the sibling of "k", committed as 1 and then written, has had its cache cleared
\* without commit: it is still in the ledger, the disk still holds 1
StagedValueDiscarded ==
    /\ last.op = "clear_cache"
    /\ last.arg = Bool(FALSE)
    /\ last.obj = SiblingA
    /\ \E e \in ledger : e.obj = SiblingA
    /\ path(SiblingA) \in DOMAIN disk
    /\ disk[path(SiblingA)] = FileOf(json_dump(Int(1)))

\* C8: data set indirection on commit. After data_set[key] = value followed by
\* data_set.commit(), the manifest on disk contains the key and the sibling's
\* document exists on disk.
CommitWritesManifestAndSibling ==
    [][(/\ last.op = "set" /\ last.obj.cls = "DataSet" /\ last.err = ""
        /\ last'.op = "commit" /\ last'.obj = last.obj)
          => /\ path(last.obj) \in DOMAIN disk'
             /\ odict_has(Committed(disk', last.obj), KeyK)
             /\ path(serializer_of(last.obj, KeyK)) \in DOMAIN disk']_vars

\* C9: data set removal. del data_set[k] succeeds exactly when k is in the
\* manifest; from the moment it returns data_set[k] raises KeyError, and a commit
\* of the root that follows leaves the manifest on disk without k and no document
\* for the sibling. When k is not in the manifest it raises KeyError and stages
\* nothing: the ledger, the flags of every node and the disk are as before.
DataSetRemoval ==
    [][/\ (last'.op = "remove" /\ last'.obj.cls = "DataSet")
            => IF odict_has(ReadBack(S, last'.obj), KeyK)
               THEN /\ last'.err = ""
                    /\ DataSet_getitem(construct(S', last'.obj), last'.obj, KeyK).err
                          = "KeyError"
               ELSE /\ last'.err = "KeyError"
                    /\ ledger' = ledger
                    /\ pending' = pending
                    /\ unsaved' \subseteq unsaved
                    /\ disk' = disk
       /\ (/\ last.op = "remove" /\ last.obj.cls = "DataSet" /\ last.err = ""
           /\ last'.op = "root_commit")
            => /\ ~odict_has(Committed(disk', last.obj), KeyK)
               /\ path(serializer_of(last.obj, KeyK)) \notin DOMAIN disk']_vars

\* the root's commit has returned on the populated disk (it alone has attributes
\* of "a"): the manifest is on disk without "k", the document of "k" is gone
RemovalCommitted ==
    /\ last.op = "root_commit"
    /\ path(AttrA) \in DOMAIN disk
    /\ path(DataSetA) \in DOMAIN disk
    /\ disk[path(DataSetA)] = FileOf(json_dump(OrderedDict(<<>>)))
    /\ path(SiblingA) \notin DOMAIN disk

\* C10: manifest and sibling agree. data_set[key], for a key in the manifest whose
\* sibling has no document on disk and no value in memory, raises an error.
MissingSiblingIsError ==
    [][LET o == last'.obj
           sibling == serializer_of(o, KeyK)
       IN (/\ last'.op = "get" /\ o.cls = "DataSet"
           /\ odict_has(ReadBack(S, o), KeyK)
           /\ path(sibling) \notin DOMAIN disk
           /\ sibling \notin init)
             => last'.err # ""]_vars

\* os.path.basename: the name a path ends in
basename(p) ==
    LET seps == {i \in 1..Len(p) : p[i] = Sep}
    IN IF seps = {} THEN p
       ELSE SubSeq(p, (CHOOSE i \in seps : \A j \in seps : j <= i) + 1, Len(p))

\* the paths children() of d is to yield: the subdirectories on disk and the
\* children in memory, less the directories pending deletion
ExpectedChildren(d) ==
    {normpath(join(path(d), n)) : n \in listdirs(disk, path(d)) \cup memory[d]}
       \ {path(o) : o \in {x \in pending : IsDir(x)}}

\* C11: enumeration. list(directory) returns, in strictly ascending order of
\* name, Directories of exactly the subdirectories on disk and the referenced
\* children in memory that are not pending deletion; len(directory) returns
\* their number.
ChildrenEnumerated ==
    (last.op \in {"children", "size"})
       => /\ last.err = ""
          /\ (last.op = "children")
                => LET ys == last.ret.items
                   IN /\ \A i, j \in 1..Len(ys) :
                            i < j => str_lt(basename(path(ys[i])), basename(path(ys[j])))
                      /\ \A i \in 1..Len(ys) : ys[i].cls = "Directory"
                      /\ {path(ys[i]) : i \in 1..Len(ys)} = ExpectedChildren(last.obj)
          /\ (last.op = "size")
                => last.ret = Int(Cardinality(ExpectedChildren(last.obj)))

\* C12: directory[name] raises KeyError when the path is neither on disk nor a
\* child in memory, when it is on disk but no directory, and when the Directory
\* it resolves is pending deletion; so it never returns a Directory that is
\* pending deletion, be it on disk or in memory only.
ChildLookup ==
    [][(last'.op = "getitem")
          => LET d == last'.obj
                 name == last'.arg.s
                 p == normpath(join(path(d), name))
             IN /\ (p \notin DOMAIN disk /\ name \notin memory[d])
                      => last'.err = "KeyError"
                /\ (p \in DOMAIN disk /\ disk[p].kind # "dir" /\ name \notin memory[d])
                      => last'.err = "KeyError"
                /\ (\E o \in pending : o.cls = "Directory" /\ path(o) = p)
                      => last'.err = "KeyError"
                /\ (last'.err = "") => last'.ret \notin pending']_vars

\* C13: create_group(name) raises OSError exactly when the path exists on disk,
\* and then changes nothing (children in memory, ledger, disk, or any other
\* state); otherwise it returns a new Directory, registered as a child in memory
\* and not on disk. A directory held in memory comes to exist on disk only in a
\* commit that writes a document under it. require_group(name) returns
\* directory[name] when that resolves and the result of create_group(name)
\* otherwise.
CreateChild ==
    [][LET d == last'.obj
       IN /\ (last'.op = "create_group")
               => LET name == last'.arg.s
                      p == normpath(join(path(d), name))
                  IN IF p \in DOMAIN disk
                     THEN /\ last'.err = "OSError"
                          /\ UNCHANGED <<disk, cache, held, unsaved, pending, init, data,
                                         memory, ledger>>
                     ELSE /\ last'.err = ""
                          /\ last'.ret.cls = "Directory"
                          /\ path(last'.ret) = p
                          /\ name \in memory'[d]
                          /\ p \notin DOMAIN disk'
                          /\ ledger' = ledger
          /\ (last'.op = "require_group")
               => LET name == last'.arg.s
                      r == Directory_getitem(S, d, name)
                      c == create_group(S, d, name)
                  IN IF r.err = ""
                     THEN last'.err = "" /\ last'.ret = r.ret
                     ELSE last'.err = c.err /\ last'.ret = c.ret
          /\ \A o \in held :
                (IsDir(o) /\ path(o) \notin DOMAIN disk /\ path(o) \in DOMAIN disk')
                   => /\ last'.op \in {"commit", "root_commit", "clear_cache",
                                        "dir_clear_cache"}
                      /\ \E q \in DOMAIN disk' \ DOMAIN disk :
                            /\ startswith(q, path(o) \o <<Sep>>)
                            /\ disk'[q].kind = "file"]_vars

\* create_group has returned a Directory that is a child in memory, not on disk
ChildCreated ==
    /\ last.op = "create_group"
    /\ last.err = ""
    /\ last.ret \in held
    /\ last.arg.s \in memory[last.obj]
    /\ path(last.ret) \notin DOMAIN disk

\* C14: parent on the File raises OSError; and parent on a Directory that
\* directory[name], create_group(name) or require_group(name) has just returned
\* from a directory p, for a name of one segment, returns a directory of p's
\* path, which is the File itself when p is the File.
ParentNavigation ==
    [][(last'.op = "parent")
          => /\ (last'.obj.cls = "File") => last'.err = "OSError"
             /\ ( /\ last.op \in {"getitem", "create_group", "require_group"}
                  /\ last.err = ""
                  /\ last'.obj = last.ret )
                  => /\ last'.err = ""
                     /\ path(last'.ret) = path(last.obj)
                     /\ (last.obj.cls = "File") => last'.ret = last.obj]_vars

\* C15: in every state, every Deferred node that is pending deletion has unsaved
\* changes.
PendingImpliesUnsaved == \A o \in pending : o \in unsaved

\* C16: a Serializer, Attribute or DataSet that is not initialized holds its
\* default value; a write, or a set or removal of an Attribute key, that succeeds
\* leaves the node initialized; and an initialized node stays so until a delete
\* or a clear_cache.
HydrationInvariant ==
    [][/\ \A o \in DOMAIN data' : o \notin init' => data'[o] = default(o)
       /\ ( /\ last'.op \in {"write", "set", "remove"}
            /\ last'.err = ""
            /\ last'.obj \in cache' ) => last'.obj \in init'
       /\ \A o \in init \cap cache' :
             o \notin init'
                => last'.op \in {"delete", "delitem", "clear_cache",
                                 "dir_clear_cache"}]_vars

\* C17: right after delete() on a Serializer or Attribute whose file is on disk,
\* a read returns the default value and a lookup of a key raises KeyError, not
\* what the file holds, and the node still has unsaved changes and is pending
\* deletion.
DeletionIsImmediate ==
    [][( /\ last.op = "delete"
         /\ ~IsDir(last.obj)
         /\ path(last.obj) \in DOMAIN disk
         /\ last'.op \in {"read", "get"}
         /\ last'.obj = last.obj )
          => /\ (last'.op = "read") => last'.ret = default(last.obj)
             /\ (last'.op = "get") => last'.err = "KeyError"
             /\ last.obj \in unsaved'
             /\ last.obj \in pending']_vars

\* C18: a write that succeeds right after delete() on a Serializer leaves it not
\* pending deletion, initialized, with unsaved changes, and holding the value
\* written; and the commit that follows a successful write, of the node, or of
\* the root when no directory above the node is staged for deletion, leaves the
\* file on disk holding the value written.
WriteCancelsDeletion ==
    [][LET o == last.obj
       IN /\ ( /\ last.op = "delete"
               /\ ~IsDir(o)
               /\ last'.op = "write"
               /\ last'.obj = o
               /\ last'.err = "" )
               => /\ o \notin pending'
                  /\ o \in init'
                  /\ o \in unsaved'
                  /\ data'[o] = last'.arg
          /\ ( /\ last.op = "write"
               /\ last.err = ""
               /\ \/ last'.op = "commit" /\ last'.obj = o
                  \/ /\ last'.op = "root_commit"
                     /\ \A d \in pending :
                           ~(IsDir(d) /\ startswith(path(o), path(d) \o <<Sep>>)) )
               => /\ o \notin pending'
                  /\ path(o) \in DOMAIN disk'
                  /\ disk'[path(o)] = FileOf(json_dump(last.arg))]_vars

\* a value was written to a Serializer whose file is on disk holding another
\* value, and the Serializer is in the ledger, not pending deletion
DeletionCancelled ==
    /\ last.op = "write"
    /\ last.err = ""
    /\ last.obj = SiblingA
    /\ path(SiblingA) \in DOMAIN disk
    /\ disk[path(SiblingA)] # FileOf(json_dump(last.arg))
    /\ SiblingA \in {e.obj : e \in ledger}
    /\ SiblingA \in unsaved \cap init
    /\ SiblingA \notin pending

\* C19: in every state, file.commit() ends with the same disk and the same flags
\* of every node (unsaved changes, pending deletion, initialized) whatever the
\* order in which it commits the entries of the ledger.
RootCommitOrderIndependent ==
    (FileObj \notin {e.obj : e \in ledger})
       => \A o1, o2 \in Orders({e.obj : e \in ledger}) :
             LET s1 == collect(File_commit(S, o1))
                 s2 == collect(File_commit(S, o2))
             IN /\ s1.disk = s2.disk
                /\ s1.unsaved = s2.unsaved
                /\ s1.pending = s2.pending
                /\ s1.init = s2.init

\* C20: directory.clear_cache(commit_changes) leaves every live Serializer,
\* Attribute and DataSet under the directory's path uninitialized and holding its
\* default value, and leaves every one that is not under that path as it was:
\* its value, its flags (initialized, unsaved changes, pending deletion), its
\* entry in the ledger and its file on disk.
ClearCacheScope ==
    [][(last'.op = "dir_clear_cache")
          => LET nested(o) == startswith(path(o), path(last'.obj) \o <<Sep>>)
                 entries(l, o) == {e \in l : e.obj = o}
                 document(dk, o) == IF path(o) \in DOMAIN dk THEN dk[path(o)] ELSE None
             IN \A o \in {x \in cache \cap cache' : ~IsDir(x)} :
                   IF nested(o)
                   THEN o \notin init' /\ data'[o] = default(o)
                   ELSE /\ data'[o] = data[o]
                        /\ (o \in init') = (o \in init)
                        /\ (o \in unsaved') = (o \in unsaved)
                        /\ (o \in pending') = (o \in pending)
                        /\ entries(ledger', o) = entries(ledger, o)
                        /\ document(disk', o) = document(disk, o)]_vars

\* C28: list(directory) and len(directory), of a Directory that is not on disk,
\* return without error: the Directories of its children in memory that are not
\* pending deletion, in ascending order of name, and their number.
UncommittedEnumeration ==
    (last.op \in {"children", "size"} /\ path(last.obj) \notin DOMAIN disk)
       => LET names == {n \in memory[last.obj] :
                          Obj("Directory", join(path(last.obj), n)) \notin pending}
          IN /\ last.err = ""
             /\ (last.op = "children")
                   => last.ret = List([i \in 1..Cardinality(names) |->
                                         Obj("Directory",
                                             join(path(last.obj), sorted(names)[i]))])
             /\ (last.op = "size") => last.ret = Int(Cardinality(names))

\* C26: attribute[key] = value right after attribute.delete() leaves the Attribute
\* not pending deletion, with unsaved changes, and holding that key alone; and
\* the commit that follows a successful attribute[key] = value, of the node, or
\* of the root when no directory above the node is staged for deletion, leaves
\* the file on disk holding the key with the value.
SetAfterDeleteKept ==
    [][LET o == last.obj
       IN /\ ( /\ last.op = "delete"
               /\ o.cls = "Attribute"
               /\ last'.op = "set"
               /\ last'.obj = o
               /\ last'.err = "" )
               => /\ o \notin pending'
                  /\ o \in unsaved'
                  /\ data'[o] = OrderedDict(<<[k |-> KeyX, v |-> last'.arg]>>)
          /\ ( /\ last.op = "set"
               /\ o.cls = "Attribute"
               /\ last.err = ""
               /\ \/ last'.op = "commit" /\ last'.obj = o
                  \/ /\ last'.op = "root_commit"
                     /\ \A d \in pending :
                           ~(IsDir(d) /\ startswith(path(o), path(d) \o <<Sep>>)) )
               => /\ path(o) \in DOMAIN disk'
                  /\ odict_has(Committed(disk', o), KeyX)
                  /\ odict_get(Committed(disk', o), KeyX) = last.arg]_vars

\* C27: once a commit has carried out the deletion of a child Directory the
\* caller still holds, staged by child.delete() or by del directory[name], the
\* parent's lookup of the name raises KeyError and the parent's iteration does
\* not yield the child.
DeletionPermanent ==
    [][\A c \in pending \cap cache' :
          ( /\ c.cls = "Directory"
            /\ c \notin pending'
            /\ last'.op \in {"commit", "root_commit"} )
             => LET name == basename(path(c))
                IN /\ Directory_getitem(S', FileObj, name).err = "KeyError"
                   /\ \A pep479 \in BOOLEAN :
                         LET r == Directory_iter(S', FileObj, pep479)
                         IN /\ r.err = ""
                            /\ \A i \in 1..Len(r.ret.items) :
                                  path(r.ret.items[i]) # path(c)]_vars

\* C29: a node with unsaved changes outlives the caller's references. When the
\* caller drops a reference, every node with unsaved changes stays alive with its
\* value and flags; a lookup that returns a Directory finds the containers of it
\* that have unsaved changes as they were; and file.commit(), called while the
\* caller holds nothing, leaves each node with unsaved changes written with its
\* staged value, or removed if it was pending deletion (for a ledger in which no
\* node to write lies under a directory to remove).
StagedChangesSurvive ==
    [][LET kept(o) == /\ o \in cache'
                      /\ o \in unsaved'
                      /\ (o \in pending') = (o \in pending)
                      /\ ~IsDir(o) => /\ data'[o] = data[o]
                                      /\ (o \in init') = (o \in init)
           conflict == \E d \in pending, o \in {e.obj : e \in ledger} \ pending :
                          IsDir(d) /\ startswith(path(o), path(d) \o <<Sep>>)
       IN /\ (last'.op = "drop") => \A o \in unsaved : kept(o)
          /\ (last'.op \in {"require_group", "getitem"} /\ last'.err = "")
                => \A o \in containers(last'.ret) \cap unsaved : kept(o)
          /\ (last'.op = "root_commit" /\ held = {} /\ ~conflict)
                => \A o \in unsaved :
                      IF o \in pending THEN path(o) \notin DOMAIN disk'
                      ELSE /\ path(o) \in DOMAIN disk'
                           /\ disk'[path(o)] = FileOf(json_dump(data[o]))]_vars

\* the caller has dropped its last reference while the attributes of "a" hold a
\* key that is not on disk
StagedAndDropped ==
    /\ last.op = "drop"
    /\ held = {}
    /\ AttrA \in cache \cap unsaved
    /\ odict_has(data[AttrA], KeyX)
    /\ path(AttrA) \notin DOMAIN disk

\* C30: once a commit has removed from disk a Directory that was pending deletion,
\* a read of its meta, attribute or data set container, kept or looked up anew,
\* returns the default value.
NoStaleContent ==
    [][\A c \in pending :
          ( /\ c.cls = "Directory"
            /\ path(c) \in DOMAIN disk
            /\ path(c) \notin DOMAIN disk'
            /\ last'.op \in {"commit", "root_commit"} )
             => \A o \in containers(c) : ReadBack(S', o) = default(o)]_vars

\* C24: file.commit() leaves the file of a clean node as it was: a live Serializer,
\* Attribute or DataSet that has no unsaved changes when file.commit() is called,
\* and lies under no directory staged for deletion, has the same document on
\* disk, or none, before and after.
CleanNodesUntouched ==
    [][(last'.op = "root_commit")
          => \A o \in {x \in cache : ~IsDir(x)} \ unsaved :
                (\A d \in pending : ~(IsDir(d) /\ startswith(path(o), path(d) \o <<Sep>>)))
                   => /\ (path(o) \in DOMAIN disk') = (path(o) \in DOMAIN disk)
                      /\ path(o) \in DOMAIN disk => disk'[path(o)] = disk[path(o)]]_vars

\* C23: in every state, no two live instances, of whatever class, have the same
\* path, and no two live instances with unsaved changes go by one key of the
\* ledger.
OneObjectPerPath ==
    /\ \A o1, o2 \in cache : path(o1) = path(o2) => o1 = o2
    /\ \A o1, o2 \in unsaved \cap cache : path(o1) = path(o2) => o1 = o2

\* C25: file.commit() returns without error and leaves the ledger empty, from
\* every state, those in which file.delete() has made the File an entry of its
\* own ledger included.
RootCommitTerminates ==
    [][(last'.op = "root_commit") => (last'.err = "" /\ ledger' = {})]_vars

\* C21: a read of a node that is not initialized and whose file does not parse
\* raises an error and leaves the node as it was, not initialized and holding its
\* default value, with the same flags, and leaves the ledger and the disk as they
\* were; and a read of a node that is not initialized and whose file parses, as
\* after a repair, returns the file's content and leaves the node initialized.
FailedReadLeavesState ==
    [][(last'.op = "read" /\ last'.obj \notin init /\ isfile(S, path(last'.obj)))
          => LET o == last'.obj
             IN IF disk[path(o)].doc = Invalid
                THEN /\ last'.err # ""
                     /\ o \notin init'
                     /\ data'[o] = default(o)
                     /\ UNCHANGED <<disk, unsaved, pending, init, data, ledger>>
                ELSE /\ last'.err = ""
                     /\ o \in init'
                     /\ last'.ret = json_load(disk[path(o)].doc)
                     /\ data'[o] = last'.ret]_vars

\* a read of the attributes of "a" has failed on a file that does not parse
ReadFailed ==
    /\ last.op = "read"
    /\ last.obj = AttrA
    /\ last.err = "RuntimeError"
    /\ disk[path(AttrA)].doc = Invalid
    /\ AttrA \notin init

\* C22: a file.commit() that leaves an entry with unsaved changes unwritten
\* raises, and keeps that entry in the ledger with its flags and its value; an
\* entry whose unsaved flag it clears has been written, or removed if it was
\* pending deletion; and a file.commit() that returns has done so for every
\* entry and emptied the ledger.
CommitFailureBookkeeping ==
    [][(last'.op = "root_commit")
          => LET flushed(o) ==
                    IF o \in pending THEN path(o) \notin DOMAIN disk'
                    ELSE /\ data[o] # Unserializable
                         /\ path(o) \in DOMAIN disk'
                         /\ disk'[path(o)] = FileOf(json_dump(data[o]))
             IN /\ \A o \in unsaved :
                      IF o \in unsaved'
                      THEN /\ last'.err # ""
                           /\ \E e \in ledger' : e.obj = o
                           /\ (o \in pending') = (o \in pending)
                           /\ data'[o] = data[o]
                      ELSE flushed(o)
                /\ (last'.err = "") => ledger' = {}]_vars

\* file.commit() has raised on the sibling of "k" and the sibling, and the
\* attributes of "a" staged with it, are still entries with unsaved changes
CommitRaised ==
    /\ last.op = "root_commit"
    /\ last.err = "TypeError"
    /\ {SiblingA, AttrA} \subseteq unsaved
    /\ {SiblingA, AttrA} \subseteq {e.obj : e \in ledger}
    /\ path(AttrA) \notin DOMAIN disk

====
